---- MODULE Spec2Model ----
(***************************************************************************)
(* ClawSync: model routing (model router, agent/clawsync.ts) and the chat  *)
(* actions send / sendInternal / apiSend (chat.ts).                        *)
(*                                                                         *)
(* Strings that the code only compares are TLA+ strings.  Model ids, which *)
(* the code splits on '::', are sequences of tokens: ":" is the colon and  *)
(* every other token is a run of characters without a colon.               *)
(***************************************************************************)
EXTENDS Integers, Sequences, FiniteSets, TLC

\* ---------------------------------------------------------------- bounds
MaxIdLen == 4      \* longest model id (in tokens) drawn as an input
MaxBroken == 1     \* how many model ids the adapters reject at once

\* ------------------------------------------------------- string helpers
\* JavaScript undefined, for token strings and for plain strings
Undefined == <<"undefined">>
UndefinedStr == "undefined"

\* JavaScript truthiness of an optional string
Truthy(s) == s # Undefined /\ s # <<>>
TruthyStr(s) == s # UndefinedStr /\ s # ""

Alphabet == {"a", ":"}
TokenStrings == UNION {[1..n -> Alphabet] : n \in 0..MaxIdLen}

\* 'claude-sonnet-4-20250514'
DefaultModelId == <<"claude-sonnet-4-20250514">>
ModelIds == TokenStrings \cup {DefaultModelId}

\* String.prototype.split('::'): leftmost, non-overlapping separators
RECURSIVE SplitFrom(_, _, _)
SplitFrom(s, i, cur) ==
  IF i > Len(s) THEN <<cur>>
  ELSE IF i < Len(s) /\ s[i] = ":" /\ s[i + 1] = ":"
       THEN <<cur>> \o SplitFrom(s, i + 2, <<>>)
       ELSE SplitFrom(s, i + 1, Append(cur, s[i]))
split(s) == SplitFrom(s, 1, <<>>)

\* ------------------------------------------------------ provider adapters
VendorDefault == <<"vendor-default">>
OpenRouterURL == <<"https", ":", "//openrouter.ai/api/v1">>
OpencodeZenURL == <<"https", ":", "//opencode.ai/zen/v1">>
XaiURL == <<"https", ":", "//api.x.ai/v1">>

\* what a failed construction yields instead of a handle
Thrown == [thrown |-> TRUE, adapter |-> "", name |-> "", baseURL |-> <<>>,
           apiKey |-> "", headers |-> FALSE, modelId |-> <<>>]

\* An AI-SDK provider factory applied to a model id.  The adapters are
\* external: the ids in bad are the ones they reject by throwing.
Handle(adapter, name, baseURL, apiKey, headers, modelId, bad) ==
  IF modelId \in bad THEN Thrown
  ELSE [thrown |-> FALSE, adapter |-> adapter, name |-> name,
        baseURL |-> baseURL, apiKey |-> apiKey, headers |-> headers,
        modelId |-> modelId]

anthropic(modelId, bad) ==
  Handle("anthropic", "", VendorDefault, "vendor", FALSE, modelId, bad)
openai(modelId, bad) ==
  Handle("openai", "", VendorDefault, "vendor", FALSE, modelId, bad)
google(modelId, bad) ==
  Handle("google", "", VendorDefault, "GEMINI_API_KEY", FALSE, modelId, bad)
createOpenAICompatible(name, baseURL, headers, modelId, bad) ==
  Handle("openai-compatible", name, baseURL, "vendor", headers, modelId, bad)

\* agent/clawsync.ts createModel
createModelAgent(provider, modelId, bad) ==
  CASE provider = "anthropic" -> anthropic(modelId, bad)
    [] provider = "openai" -> openai(modelId, bad)
    [] provider = "google" -> google(modelId, bad)
    [] provider = "openrouter" ->
         createOpenAICompatible("openrouter", OpenRouterURL, TRUE, modelId, bad)
    [] provider = "xai" ->
         createOpenAICompatible("xai", XaiURL, FALSE, modelId, bad)
    [] OTHER -> anthropic(DefaultModelId, bad)

\* model router createModel
createModelRouter(provider, modelId, bad) ==
  CASE provider = "anthropic" -> anthropic(modelId, bad)
    [] provider = "openai" -> openai(modelId, bad)
    [] provider = "google" -> google(modelId, bad)
    [] provider = "openrouter" ->
         createOpenAICompatible("openrouter", OpenRouterURL, TRUE, modelId, bad)
    [] provider = "opencode-zen" ->
         createOpenAICompatible("opencode-zen", OpencodeZenURL, FALSE, modelId, bad)
    [] provider = "custom" ->
         LET parts == split(modelId)
             baseUrl == parts[1]
             actualModelId == IF Len(parts) >= 2 THEN parts[2] ELSE Undefined
         IN createOpenAICompatible("custom", baseUrl, FALSE, actualModelId, bad)
    [] OTHER -> anthropic(modelId, bad)

\* ----------------------------------------------------------- AgentConfig
NoConfig == [present |-> FALSE, modelProvider |-> "", model |-> <<>>,
             fallbackProvider |-> UndefinedStr, fallbackModel |-> Undefined,
             soulDocument |-> UndefinedStr, systemPrompt |-> UndefinedStr]

Config(p, m, fp, fm, soul, sys) ==
  [present |-> TRUE, modelProvider |-> p, model |-> m,
   fallbackProvider |-> fp, fallbackModel |-> fm,
   soulDocument |-> soul, systemPrompt |-> sys]

\* the AgentConfig enum, and the provider strings createModel can be given
EnumProviders == {"anthropic", "openai", "google", "openrouter",
                  "opencode-zen", "custom", "xai"}
Providers == EnumProviders \cup {"bogus-provider"}

\* ResolvedModel, or the exception resolveModel lets escape
Resolved(model, provider, modelId, isFallback) ==
  [thrown |-> FALSE, model |-> model, provider |-> provider,
   modelId |-> modelId, isFallback |-> isFallback]
ResolveThrown ==
  [thrown |-> TRUE, model |-> Thrown, provider |-> "", modelId |-> <<>>,
   isFallback |-> FALSE]

\* model router resolveModel, on the config the query returned
resolveModelNoFallbackFlag(config, bad) ==
  IF ~config.present
  THEN Resolved(anthropic(DefaultModelId, bad), "anthropic", DefaultModelId, FALSE)
  ELSE LET model == createModelRouter(config.modelProvider, config.model, bad) IN
       IF ~model.thrown
       THEN Resolved(model, config.modelProvider, config.model, FALSE)
       ELSE IF TruthyStr(config.fallbackProvider) /\ Truthy(config.fallbackModel)
            THEN LET fallbackModel ==
                       createModelRouter(config.fallbackProvider,
                                         config.fallbackModel, bad) IN
                 IF fallbackModel.thrown THEN ResolveThrown
                 ELSE Resolved(fallbackModel, config.fallbackProvider,
                               config.fallbackModel, FALSE)
            ELSE Resolved(anthropic(DefaultModelId, bad), "anthropic",
                          DefaultModelId, FALSE)
resolveModel(config, bad) ==
  IF ~config.present
  THEN Resolved(anthropic(DefaultModelId, bad), "anthropic", DefaultModelId, FALSE)
  ELSE LET model == createModelRouter(config.modelProvider, config.model, bad) IN
       IF ~model.thrown
       THEN Resolved(model, config.modelProvider, config.model, FALSE)
       ELSE IF TruthyStr(config.fallbackProvider) /\ Truthy(config.fallbackModel)
            THEN LET fallbackModel ==
                       createModelRouter(config.fallbackProvider,
                                         config.fallbackModel, bad) IN
                 IF fallbackModel.thrown THEN ResolveThrown
                 ELSE Resolved(fallbackModel, config.fallbackProvider,
                               config.fallbackModel, TRUE)
            ELSE Resolved(anthropic(DefaultModelId, bad), "anthropic",
                          DefaultModelId, TRUE)

\* ---------------------------------------------------------------- chat.ts
MaxRequests == 1   \* chat requests of any kind arriving in one run
MaxBackToBack == 2 \* send requests arriving back to back in one run
Capacity == 1      \* tokens a rate-limit bucket holds when full
MaxToolCalls == 2  \* getAnalytics invocations inside one generateText

\* const maxLength = 4000
maxLength == 4000

\* the handler invocations that can be in flight: one at a time, or two
\* running concurrently
SingleSlot == {1}
ConcurrentSlots == {1, 2}
Sessions == {"s1", "s2"}
ArgThreadIds == {UndefinedStr, "", "t0"}
MsgLens == {maxLength, maxLength + 1}
ModelTexts == {"", "Y"}

\* JavaScript null, for lastToolResult
Null == "null"

RateLimitError == "Rate limit exceeded. Please wait before sending another message."
BusyError == "The agent is currently busy. Please try again in a moment."
TooLongError == "Message too long. Maximum " \o ToString(maxLength) \o " characters."
GenerateError == "Failed to generate response. Please try again."
Sentinel == "I processed your request but couldn't generate a response."

\* rateLimiter.limit(ctx, name, {key}): one token bucket per (name, key)
BucketKeys == {<<"publicChat", s>> : s \in Sessions} \cup {<<"globalMessages", "global">>}
limitOk(b, name, key) == b[<<name, key>>] > 0
limitTake(b, name, key) ==
  IF b[<<name, key>>] > 0 THEN [b EXCEPT ![<<name, key>>] = @ - 1] ELSE b

\* bucket states a request can find: full, or one bucket drained
InitBuckets ==
  {b \in [BucketKeys -> {0, Capacity}] :
     Cardinality({k \in BucketKeys : b[k] = 0}) <= 1}

\* the key send passes to the 'publicChat' limiter
sessionKeyShared(sessionId) == "s1"
sessionKey(sessionId) == sessionId

\* args.message.length > maxLength
tooLongNever(len) == FALSE
tooLongInclusive(len) == len >= maxLength
tooLong(len) == len > maxLength

\* process.env, as the presence of the three GA4 variables
\* (the service-account email and its key are set or missing together)
Envs == {e \in [GA4_PROPERTY_ID : BOOLEAN, GA4_SERVICE_ACCOUNT_EMAIL : BOOLEAN,
                GA4_PRIVATE_KEY : BOOLEAN] :
           e.GA4_SERVICE_ACCOUNT_EMAIL = e.GA4_PRIVATE_KEY}

\* internal.analytics.queryAnalytics: every return is a non-empty string
NotConfiguredMsg == "Google Analytics is not configured. Please set GA4_PROPERTY_ID, GA4_SERVICE_ACCOUNT_EMAIL, and GA4_PRIVATE_KEY environment variables in Convex Dashboard."
AnalyticsReport == "Site Overview\n\n*Data for d1 to d2*"
FailedFetchMsg == "Failed to fetch analytics: E"
queryAnalytics(e) ==
  IF ~e.GA4_PROPERTY_ID \/ ~e.GA4_SERVICE_ACCOUNT_EMAIL \/ ~e.GA4_PRIVATE_KEY
  THEN {NotConfiguredMsg}
  ELSE {AnalyticsReport, FailedFetchMsg}

\* the catch arm of getAnalytics.execute
ExecuteError == "Error fetching analytics: " \o "Error: E"

\* getAnalytics.execute: what it stores in lastToolResult and returns
executeStoresNothing(fault, out) == IF fault THEN Null ELSE out
execute(fault, out) == IF fault THEN ExecuteError ELSE out

\* instruction composition
DefaultPersona == "You are a helpful AI assistant."
SuffixSend == "\n\nYou have access to Google Analytics data via the getAnalytics tool. When users ask about website analytics, traffic, pageviews, top pages, traffic sources, devices, or performance, call getAnalytics. After getting the data, present it to the user in a clear format."
SuffixInternal == "\n\nYou have access to Google Analytics data via the getAnalytics tool. When users ask about website analytics, traffic, pageviews, top pages, traffic sources, devices, or performance, call getAnalytics. After getting the data, present it to the user."

RECURSIVE join(_, _)
join(parts, sep) ==
  IF Len(parts) = 0 THEN ""
  ELSE IF Len(parts) = 1 THEN parts[1]
  ELSE parts[1] \o sep \o join(Tail(parts), sep)

baseInstructionsKeepsDefault(config) ==
  LET p1 == IF TruthyStr(config.soulDocument) THEN <<config.soulDocument>> ELSE <<>>
      parts == IF TruthyStr(config.systemPrompt) THEN Append(p1, config.systemPrompt) ELSE p1
  IN IF config.present THEN join(<<DefaultPersona>> \o parts, "\n\n") ELSE DefaultPersona
baseInstructions(config) ==
  LET p1 == IF TruthyStr(config.soulDocument) THEN <<config.soulDocument>> ELSE <<>>
      parts == IF TruthyStr(config.systemPrompt) THEN Append(p1, config.systemPrompt) ELSE p1
  IN IF config.present /\ Len(parts) > 0 THEN join(parts, "\n\n") ELSE DefaultPersona

systemInstructions(config, e, suffix) ==
  IF e.GA4_PROPERTY_ID THEN baseInstructions(config) \o suffix
  ELSE baseInstructions(config)

\* the tools object handed to generateText: getAnalytics or undefined
analyticsTools(e) == e.GA4_PROPERTY_ID

\* model passed to generateText when there is no config: undefined
UndefinedModel == [thrown |-> FALSE, adapter |-> "undefined", name |-> "",
                   baseURL |-> <<>>, apiKey |-> "", headers |-> FALSE,
                   modelId |-> <<>>]

\* the model send / sendInternal build from the config they read
chatModel(config, bad) ==
  IF config.present
  THEN createModelAgent(config.modelProvider, config.model, bad)
  ELSE UndefinedModel

\* response precedence of send: no final fallback
responseTextSendToolFirst(text, lastToolResult) ==
  IF lastToolResult # Null /\ lastToolResult # "" THEN lastToolResult ELSE text
responseTextSend(text, lastToolResult) ==
  IF text = "" /\ lastToolResult # Null /\ lastToolResult # ""
  THEN lastToolResult ELSE text

\* response precedence of sendInternal: with the final fallback
responseTextInternal(text, lastToolResult) ==
  LET t == IF text = "" /\ lastToolResult # Null /\ lastToolResult # ""
           THEN lastToolResult ELSE text
  IN IF t = "" THEN Sentinel ELSE t

\* what an entry point hands back to its caller (apiSend's token counts,
\* read from the external usage object, are left out)
NoResult == [type |-> "none", response |-> UndefinedStr, error |-> UndefinedStr,
             threadId |-> UndefinedStr]
Responded(text, tid) ==
  [type |-> "response", response |-> text, error |-> UndefinedStr, threadId |-> tid]
ErrorResult(err, tid) ==
  [type |-> "error", response |-> UndefinedStr, error |-> err, threadId |-> tid]
ThrownResult ==
  [type |-> "thrown", response |-> UndefinedStr, error |-> UndefinedStr,
   threadId |-> UndefinedStr]

\* one invocation of send / sendInternal / apiSend: its arguments, its
\* locals, and a record of the collaborator calls it has made
IdleReq ==
  [kind |-> "", pc |-> "idle", len |-> 0, sessionId |-> "",
   argThreadId |-> UndefinedStr, config |-> NoConfig, model |-> UndefinedModel,
   threadId |-> UndefinedStr, system |-> "", tools |-> FALSE,
   lastToolResult |-> Null, toolReturn |-> Null, toolThrew |-> FALSE,
   text |-> "", responseText |-> "",
   overtaken |-> FALSE, limits |-> <<>>, nConfig |-> 0, nModel |-> 0, nThread |-> 0, created |-> {},
   nGen |-> 0, nTool |-> 0, nLog |-> 0, result |-> NoResult]

Limit(name, key, ok) == [name |-> name, key |-> key, ok |-> ok]

\* a returned request, as its caller and the limiter saw it
Returned(q) ==
  [kind |-> q.kind, sessionId |-> q.sessionId, limits |-> q.limits,
   type |-> q.result.type, error |-> q.result.error]
NoPrev == [kind |-> "", sessionId |-> "", limits |-> <<>>, type |-> "none",
           error |-> UndefinedStr]

\* threadId minted by clawsyncAgent.createThread
MintId(n) == "t" \o ToString(n)

\* the threadId send and apiSend work on: args.threadId when it is truthy,
\* else the one createThread minted
\* the thread sendInternal works on: always the one createThread minted
sendInternalThreadIdOfSession(sessionId, minted) == "t_" \o sessionId
sendInternalThreadId(sessionId, minted) == minted

sendThreadIdAlwaysArg(argThreadId, minted) == argThreadId
sendThreadId(argThreadId, minted) ==
  IF TruthyStr(argThreadId) THEN argThreadId ELSE minted

\* AgentConfig rows a chat request reads
ChatConfigs ==
  {NoConfig,
   Config("openai", <<"a">>, UndefinedStr, Undefined, "You are Max.", UndefinedStr),
   Config("custom", <<"a", ":", ":", "a">>, "openai", <<"a">>, "", "Be brief."),
   Config("google", DefaultModelId, UndefinedStr, Undefined, "You are Max.", "Be brief."),
   Config("xai", DefaultModelId, UndefinedStr, Undefined, UndefinedStr, "")}
ChatBadIds == {<<"a">>}

\* ------------------------------------------------------------------ state
VARIABLES
  agentConfig,   \* the agentConfig row internal.agentConfig.getConfig returns
  broken,        \* model ids the provider adapters reject
  resolved,      \* what the last resolveModel call produced
  constructed,   \* what the last createModel call produced
  pcR,           \* position of the resolver / registry caller
  env,           \* process.env
  buckets,       \* rate limiter: tokens left per (name, key)
  threads,       \* thread ids the agent component holds
  nextThread,    \* number of the next thread createThread mints
  activityLog,   \* activityLog table: actionType of each record
  budget,        \* chat requests still to arrive
  prev,          \* the request that returned last: what its caller saw
  reqs,          \* the chat requests in flight, per slot
  channelConfig, \* channelConfig table: its rows
  channelSecrets,\* channelSecrets table: its rows
  dbClock,       \* next document id and the time Date.now() returns
  tg             \* telegram.ts processMessage: the invocation in flight

chatVars == <<env, buckets, threads, nextThread, activityLog, budget, prev, reqs>>
routerVars == <<resolved, constructed, pcR>>
channelVars == <<channelConfig, channelSecrets, dbClock, tg>>
vars == <<agentConfig, broken, resolved, constructed, pcR, env, buckets,
          threads, nextThread, activityLog, budget, prev, reqs,
          channelConfig, channelSecrets, dbClock, tg>>

\* the invocations this run has room for
Slots == DOMAIN reqs

\* The adapters accept the default model id: agent/clawsync.ts builds
\* anthropic('claude-sonnet-4-20250514') when the module loads.
RECURSIVE SubsetsUpTo(_, _)
SubsetsUpTo(S, k) ==
  IF k = 0 THEN {{}}
  ELSE LET P == SubsetsUpTo(S, k - 1) IN P \cup {q \cup {x} : q \in P, x \in S}
RejectableIds == {m \in TokenStrings : Len(m) <= 1} \cup {Undefined}
BrokenSets == SubsetsUpTo(RejectableIds, MaxBroken)

\* an inbound Telegram message being processed: its arguments, the
\* sendMessage calls made for it, and the sendInternal calls made so far
TgIdle(left, calls) ==
  [pc |-> "idle", chatId |-> 0, text |-> "", gate |-> "unread", sent |-> <<>>,
   nInternal |-> 0, nLog |-> 0, left |-> left, calls |-> calls]

ChannelIdle ==
  /\ channelConfig = {}
  /\ channelSecrets = {}
  /\ dbClock = [nextId |-> 1, now |-> 0]
  /\ tg = TgIdle(0, <<>>)

NoResolved == [thrown |-> FALSE, model |-> Thrown, provider |-> "",
               modelId |-> <<>>, isFallback |-> FALSE]
NoConstructed == [impl |-> "", provider |-> "", modelId |-> <<>>,
                  handle |-> Thrown]

ChatIdle ==
  /\ env = [GA4_PROPERTY_ID |-> FALSE, GA4_SERVICE_ACCOUNT_EMAIL |-> FALSE,
            GA4_PRIVATE_KEY |-> FALSE]
  /\ buckets = [k \in BucketKeys |-> Capacity]
  /\ threads = {"t0"}
  /\ nextThread = 1
  /\ activityLog = <<>>
  /\ budget = 0
  /\ prev = NoPrev
  /\ reqs = [r \in SingleSlot |-> IdleReq]

RouterIdle ==
  /\ resolved = NoResolved
  /\ constructed = NoConstructed
  /\ pcR = "idle"

\* ctx.runMutation(internal.activityLog.log, {actionType, ...}) succeeding
logActivityDropped(log, actionType) == log
logActivity(log, actionType) == Append(log, actionType)

\* ------------------------------------------------------- chat.ts: send
Put(r, q) == reqs' = [reqs EXCEPT ![r] = q]
Done(q, res) == [q EXCEPT !.pc = "done", !.result = res]

\* the catch arm of send and apiSend
FailedWithArgThreadLeaky(q) == Done(q, ErrorResult("Error: E", q.argThreadId))
FailedWithArgThread(q) == Done(q, ErrorResult(GenerateError, q.argThreadId))
\* the catch arm of sendInternal
FailedInternalRetry(q) ==
  IF q.nGen = 1 THEN [q EXCEPT !.pc = "generating", !.nGen = 2]
  ELSE Done(q, ErrorResult(GenerateError, UndefinedStr))
FailedInternal(q) == Done(q, ErrorResult(GenerateError, UndefinedStr))

\* if (!ok) return {error: 'Rate limit exceeded. ...', threadId}
afterSessionLimitNoReturn(q, ok) == [q EXCEPT !.pc = "sendGlobal"]
afterSessionLimit(q, ok) ==
  IF ~ok THEN Done(q, ErrorResult(RateLimitError, q.argThreadId))
  ELSE [q EXCEPT !.pc = "sendGlobal"]

\* send is invoked with these arguments:
\* rateLimiter.limit(ctx, 'publicChat', {key: sessionId})
SendStart(r, len, sid, tid, fault) ==
  LET q0 == [IdleReq EXCEPT !.kind = "send", !.len = len,
                            !.sessionId = sid, !.argThreadId = tid]
      key == sessionKey(sid)
      ok == limitOk(buckets, "publicChat", key)
      q1 == [q0 EXCEPT !.limits = Append(@, Limit("publicChat", key, ok))]
  IN IF fault
     THEN /\ Put(r, Done(q0, ThrownResult))
          /\ UNCHANGED buckets
     ELSE /\ buckets' = limitTake(buckets, "publicChat", key)
          /\ Put(r, afterSessionLimit(q1, ok))

SendLimitSession(r) ==
  /\ reqs[r].pc = "idle"
  /\ budget > 0
  /\ budget' = budget - 1
  /\ \E len \in MsgLens, sid \in Sessions, tid \in ArgThreadIds, fault \in BOOLEAN :
       SendStart(r, len, sid, tid, fault)
  /\ UNCHANGED <<agentConfig, broken, routerVars, channelVars, prev, env, threads, nextThread,
                 activityLog>>

\* rateLimiter.limit(ctx, 'globalMessages', {key: 'global'}), then the
\* length check
SendLimitGlobal(r) ==
  /\ reqs[r].pc = "sendGlobal"
  /\ \E fault \in BOOLEAN :
       LET q0 == reqs[r]
           globalOk == limitOk(buckets, "globalMessages", "global")
           q1 == [q0 EXCEPT !.limits = Append(@, Limit("globalMessages", "global", globalOk))]
       IN IF fault
          THEN /\ Put(r, Done(q0, ThrownResult))
               /\ UNCHANGED buckets
          ELSE /\ buckets' = limitTake(buckets, "globalMessages", "global")
               /\ Put(r, IF ~globalOk
                         THEN Done(q1, ErrorResult(BusyError, q1.argThreadId))
                         ELSE IF tooLong(q1.len)
                         THEN Done(q1, ErrorResult(TooLongError, q1.argThreadId))
                         ELSE [q1 EXCEPT !.pc = "sendConfig"])
  /\ UNCHANGED <<agentConfig, broken, routerVars, channelVars, prev, env, threads, nextThread,
                 activityLog, budget>>

\* ctx.runQuery(internal.agentConfig.getConfig), then createModel
SendReadConfig(r) ==
  /\ reqs[r].pc = "sendConfig"
  /\ \E fault \in BOOLEAN :
       LET q0 == [reqs[r] EXCEPT !.nConfig = @ + 1]
           model == chatModel(agentConfig, broken)
           q1 == [q0 EXCEPT !.config = agentConfig,
                            !.nModel = IF agentConfig.present THEN 1 ELSE 0]
       IN Put(r, IF fault THEN FailedWithArgThread(q0)
                 ELSE IF model.thrown THEN FailedWithArgThread(q1)
                 ELSE [q1 EXCEPT !.model = model, !.pc = "sendThread"])
  /\ UNCHANGED <<agentConfig, broken, routerVars, channelVars, prev, env, buckets, threads,
                 nextThread, activityLog, budget>>

\* continueThread or createThread, then the instructions and the tools are
\* built and thread.generateText is called
SendResolveThread(r) ==
  /\ reqs[r].pc = "sendThread"
  /\ \E fault \in BOOLEAN :
       LET q0 == [reqs[r] EXCEPT !.nThread = @ + 1]
           continue == TruthyStr(q0.argThreadId)
           threadId == sendThreadId(q0.argThreadId, MintId(nextThread))
           q1 == [q0 EXCEPT !.threadId = threadId,
                            !.created = IF continue THEN {} ELSE {threadId},
                            !.system = systemInstructions(q0.config, env, SuffixSend),
                            !.tools = analyticsTools(env),
                            !.lastToolResult = Null,
                            !.nGen = @ + 1,
                            !.pc = "generating"]
       IN IF fault
          THEN /\ Put(r, FailedWithArgThread(q0))
               /\ UNCHANGED <<threads, nextThread>>
          ELSE /\ Put(r, q1)
               /\ threads' = threads \cup {threadId}
               /\ nextThread' = IF continue THEN nextThread ELSE nextThread + 1
  /\ UNCHANGED <<agentConfig, broken, routerVars, channelVars, prev, env, buckets, activityLog,
                 budget>>

\* the model calls getAnalytics while generateText runs (send, sendInternal);
\* the query string only selects which report queryAnalytics formats
ToolExecuteShared(r) ==
  /\ reqs[r].pc = "generating"
  /\ reqs[r].tools
  /\ reqs[r].nTool < MaxToolCalls
  /\ \E fault \in BOOLEAN, out \in queryAnalytics(env) :
       reqs' = [x \in DOMAIN reqs |->
                 IF x = r
                 THEN [reqs[x] EXCEPT !.lastToolResult = execute(fault, out),
                                      !.toolReturn = execute(fault, out),
                                      !.toolThrew = fault,
                                      !.nTool = @ + 1]
                 ELSE IF reqs[x].pc = "idle" THEN reqs[x]
                 ELSE [reqs[x] EXCEPT !.lastToolResult = execute(fault, out)]]
  /\ UNCHANGED <<agentConfig, broken, routerVars, channelVars, prev, env, buckets, threads,
                 nextThread, activityLog, budget>>
ToolExecute(r) ==
  /\ reqs[r].pc = "generating"
  /\ reqs[r].tools
  /\ reqs[r].nTool < MaxToolCalls
  /\ \E fault \in BOOLEAN, out \in queryAnalytics(env) :
       Put(r, [reqs[r] EXCEPT !.lastToolResult = execute(fault, out),
                              !.toolReturn = execute(fault, out),
                              !.toolThrew = fault,
                              !.nTool = @ + 1])
  /\ UNCHANGED <<agentConfig, broken, routerVars, channelVars, prev, env, buckets, threads,
                 nextThread, activityLog, budget>>

\* generateText returns or throws in send
SendGenerateReturn(r) ==
  /\ reqs[r].pc = "generating"
  /\ reqs[r].kind = "send"
  /\ \E fault \in BOOLEAN, text \in ModelTexts :
       Put(r, IF fault THEN FailedWithArgThread(reqs[r])
              ELSE [reqs[r] EXCEPT
                      !.text = text,
                      !.responseText = responseTextSend(text, reqs[r].lastToolResult),
                      !.pc = "sendLog"])
  /\ UNCHANGED <<agentConfig, broken, routerVars, channelVars, prev, env, buckets, threads,
                 nextThread, activityLog, budget>>

\* ctx.runMutation(internal.activityLog.log, ...), then send returns
SendLog(r) ==
  /\ reqs[r].pc = "sendLog"
  /\ \E fault \in BOOLEAN :
       LET q0 == [reqs[r] EXCEPT !.nLog = @ + 1] IN
       IF fault
       THEN /\ Put(r, FailedWithArgThread(q0))
            /\ UNCHANGED activityLog
       ELSE /\ Put(r, Done(q0, Responded(q0.responseText, q0.threadId)))
            /\ activityLog' = logActivity(activityLog, "chat_message")
  /\ UNCHANGED <<agentConfig, broken, routerVars, channelVars, prev, env, buckets, threads,
                 nextThread, budget>>

\* ----------------------------------------------- chat.ts: sendInternal
\* sendInternal is invoked with these arguments: getConfig, then createModel
SendInternalStart(r, len, sid, fault) ==
  LET q0 == [IdleReq EXCEPT !.kind = "sendInternal", !.len = len,
                            !.sessionId = sid, !.nConfig = 1]
      model == chatModel(agentConfig, broken)
      q1 == [q0 EXCEPT !.config = agentConfig,
                       !.nModel = IF agentConfig.present THEN 1 ELSE 0]
  IN Put(r, IF fault THEN FailedInternal(q0)
            ELSE IF model.thrown THEN FailedInternal(q1)
            ELSE [q1 EXCEPT !.model = model, !.pc = "internalThread"])

SendInternalReadConfig(r) ==
  /\ reqs[r].pc = "idle"
  /\ budget > 0
  /\ budget' = budget - 1
  /\ \E len \in MsgLens, sid \in Sessions, fault \in BOOLEAN :
       SendInternalStart(r, len, sid, fault)
  /\ UNCHANGED <<agentConfig, broken, routerVars, channelVars, prev, env, buckets, threads,
                 nextThread, activityLog>>

\* createThread, then instructions, tools and the generateText call
SendInternalCreateThread(r) ==
  /\ reqs[r].pc = "internalThread"
  /\ \E fault \in BOOLEAN :
       LET q0 == [reqs[r] EXCEPT !.nThread = @ + 1]
           threadId == sendInternalThreadId(q0.sessionId, MintId(nextThread))
           q1 == [q0 EXCEPT !.threadId = threadId,
                            !.created = {threadId},
                            !.system = systemInstructions(q0.config, env, SuffixInternal),
                            !.tools = analyticsTools(env),
                            !.lastToolResult = Null,
                            !.nGen = @ + 1,
                            !.pc = "generating"]
       IN IF fault
          THEN /\ Put(r, FailedInternal(q0))
               /\ UNCHANGED <<threads, nextThread>>
          ELSE /\ Put(r, q1)
               /\ threads' = threads \cup {threadId}
               /\ nextThread' = nextThread + 1
  /\ UNCHANGED <<agentConfig, broken, routerVars, channelVars, prev, env, buckets, activityLog,
                 budget>>

\* generateText returns or throws in sendInternal, which then returns
SendInternalGenerateReturn(r) ==
  /\ reqs[r].pc = "generating"
  /\ reqs[r].kind = "sendInternal"
  /\ \E fault \in BOOLEAN, text \in ModelTexts :
       Put(r, IF fault THEN FailedInternal(reqs[r])
              ELSE LET q1 == [reqs[r] EXCEPT
                                !.text = text,
                                !.responseText =
                                   responseTextInternal(text, reqs[r].lastToolResult)]
                   IN Done(q1, Responded(q1.responseText, UndefinedStr)))
  /\ UNCHANGED <<agentConfig, broken, routerVars, channelVars, prev, env, buckets, threads,
                 nextThread, activityLog, budget>>

\* ---------------------------------------------------- chat.ts: apiSend
\* apiSend is invoked: length check, continueThread or createThread, then
\* thread.generateText({prompt})
ApiSendResolveThread(r) ==
  /\ reqs[r].pc = "idle"
  /\ budget > 0
  /\ budget' = budget - 1
  /\ \E len \in MsgLens, sid \in Sessions, tid \in ArgThreadIds, fault \in BOOLEAN :
       LET q0 == [IdleReq EXCEPT !.kind = "apiSend", !.len = len,
                                 !.sessionId = sid, !.argThreadId = tid]
           continue == TruthyStr(tid)
           threadId == sendThreadId(tid, MintId(nextThread))
           q1 == [q0 EXCEPT !.nThread = 1]
           q2 == [q1 EXCEPT !.threadId = threadId,
                            !.created = IF continue THEN {} ELSE {threadId},
                            !.system = DefaultPersona,
                            !.nGen = 1,
                            !.pc = "generating"]
       IN IF tooLong(len)
          THEN /\ Put(r, Done(q0, ErrorResult(TooLongError, tid)))
               /\ UNCHANGED <<threads, nextThread>>
          ELSE IF fault
          THEN /\ Put(r, FailedWithArgThread(q1))
               /\ UNCHANGED <<threads, nextThread>>
          ELSE /\ Put(r, q2)
               /\ threads' = threads \cup {threadId}
               /\ nextThread' = IF continue THEN nextThread ELSE nextThread + 1
  /\ UNCHANGED <<agentConfig, broken, routerVars, channelVars, prev, env, buckets, activityLog>>

\* generateText returns or throws in apiSend
ApiSendGenerateReturn(r) ==
  /\ reqs[r].pc = "generating"
  /\ reqs[r].kind = "apiSend"
  /\ \E fault \in BOOLEAN, text \in ModelTexts :
       Put(r, IF fault THEN FailedWithArgThread(reqs[r])
              ELSE [reqs[r] EXCEPT !.text = text, !.responseText = text,
                                   !.pc = "apiLog"])
  /\ UNCHANGED <<agentConfig, broken, routerVars, channelVars, prev, env, buckets, threads,
                 nextThread, activityLog, budget>>

\* ctx.runMutation(internal.activityLog.log, ...), then apiSend returns
ApiSendLog(r) ==
  /\ reqs[r].pc = "apiLog"
  /\ \E fault \in BOOLEAN :
       LET q0 == [reqs[r] EXCEPT !.nLog = @ + 1] IN
       IF fault
       THEN /\ Put(r, FailedWithArgThread(q0))
            /\ UNCHANGED activityLog
       ELSE /\ Put(r, Done(q0, Responded(q0.responseText, q0.threadId)))
            /\ activityLog' = logActivity(activityLog, "api_chat")
  /\ UNCHANGED <<agentConfig, broken, routerVars, channelVars, prev, env, buckets, threads,
                 nextThread, budget>>

\* the caller has its result; the slot is free for the next request
Complete(r) ==
  /\ reqs[r].pc = "done"
  /\ Put(r, IdleReq)
  /\ prev' = Returned(reqs[r])
  /\ UNCHANGED <<agentConfig, broken, routerVars, channelVars, env, buckets, threads,
                 nextThread, activityLog, budget>>

Init ==
  /\ agentConfig \in ChatConfigs
  /\ broken \in SUBSET ChatBadIds
  /\ RouterIdle
  /\ env \in Envs
  /\ buckets \in InitBuckets
  /\ threads = {"t0"}
  /\ nextThread = 1
  /\ activityLog = <<>>
  /\ budget = MaxRequests
  /\ prev = NoPrev
  /\ reqs = [r \in SingleSlot |-> IdleReq]
  /\ ChannelIdle

Next ==
  \E r \in Slots :
    \/ SendLimitSession(r)
    \/ SendLimitGlobal(r)
    \/ SendReadConfig(r)
    \/ SendResolveThread(r)
    \/ ToolExecute(r)
    \/ SendGenerateReturn(r)
    \/ SendLog(r)
    \/ SendInternalReadConfig(r)
    \/ SendInternalCreateThread(r)
    \/ SendInternalGenerateReturn(r)
    \/ ApiSendResolveThread(r)
    \/ ApiSendGenerateReturn(r)
    \/ ApiSendLog(r)
    \/ Complete(r)

Spec == Init /\ [][Next]_vars

\* ------------------------------------------- send requests back to back
NoEnv == [GA4_PROPERTY_ID |-> FALSE, GA4_SERVICE_ACCOUNT_EMAIL |-> FALSE,
          GA4_PRIVATE_KEY |-> FALSE]

InitBackToBack ==
  /\ agentConfig \in ChatConfigs
  /\ broken = {}
  /\ RouterIdle
  /\ env = NoEnv
  /\ buckets \in InitBuckets
  /\ threads = {"t0"}
  /\ nextThread = 1
  /\ activityLog = <<>>
  /\ budget = MaxBackToBack
  /\ prev = NoPrev
  /\ reqs = [r \in SingleSlot |-> IdleReq]
  /\ ChannelIdle

NextBackToBack ==
  \E r \in Slots :
    \/ SendLimitSession(r)
    \/ SendLimitGlobal(r)
    \/ SendReadConfig(r)
    \/ SendResolveThread(r)
    \/ SendGenerateReturn(r)
    \/ SendLog(r)
    \/ Complete(r)

SpecBackToBack == InitBackToBack /\ [][NextBackToBack]_vars

\* ------------------------------------- two chat requests, concurrently
FullEnv == [GA4_PROPERTY_ID |-> TRUE, GA4_SERVICE_ACCOUNT_EMAIL |-> TRUE,
            GA4_PRIVATE_KEY |-> TRUE]

\* each of the two invocations has its own browser session
SessionOf(r) == IF r = 1 THEN "s1" ELSE "s2"

InitConcurrent ==
  /\ agentConfig = NoConfig
  /\ broken = {}
  /\ RouterIdle
  /\ env = FullEnv
  /\ buckets = [k \in BucketKeys |-> Capacity]
  /\ threads = {"t0"}
  /\ nextThread = 1
  /\ activityLog = <<>>
  /\ budget = Cardinality(ConcurrentSlots)
  /\ prev = NoPrev
  /\ reqs = [r \in ConcurrentSlots |-> IdleReq]
  /\ ChannelIdle

\* send is invoked with a message of admissible length and no threadId
ConcurrentSend(r) ==
  /\ reqs[r].pc = "idle"
  /\ budget > 0
  /\ budget' = budget - 1
  /\ SendStart(r, maxLength, SessionOf(r), UndefinedStr, FALSE)
  /\ UNCHANGED <<agentConfig, broken, routerVars, channelVars, prev, env, threads,
                 nextThread, activityLog>>

\* sendInternal is invoked
ConcurrentSendInternal(r) ==
  /\ reqs[r].pc = "idle"
  /\ budget > 0
  /\ budget' = budget - 1
  /\ SendInternalStart(r, maxLength, SessionOf(r), FALSE)
  /\ UNCHANGED <<agentConfig, broken, routerVars, channelVars, prev, env, buckets,
                 threads, nextThread, activityLog>>

NextConcurrent ==
  \E r \in Slots :
    \/ ConcurrentSend(r)
    \/ SendLimitGlobal(r)
    \/ SendReadConfig(r)
    \/ SendResolveThread(r)
    \/ ToolExecute(r)
    \/ SendGenerateReturn(r)
    \/ SendLog(r)
    \/ ConcurrentSendInternal(r)
    \/ SendInternalCreateThread(r)
    \/ SendInternalGenerateReturn(r)
    \/ Complete(r)

SpecConcurrent == InitConcurrent /\ [][NextConcurrent]_vars

\* -------------------------------------- the config UI saving the config
\* api.agentConfig.update: the one agentConfig row is replaced, last write
\* wins; the requests in flight at that moment are marked as overtaken
UpdateConfig ==
  /\ \E c \in ChatConfigs \ {NoConfig, agentConfig} : agentConfig' = c
  /\ reqs' = [r \in DOMAIN reqs |->
                IF reqs[r].pc = "idle" THEN reqs[r]
                ELSE [reqs[r] EXCEPT !.overtaken = TRUE]]
  /\ UNCHANGED <<broken, routerVars, channelVars, env, buckets, threads,
                 nextThread, activityLog, budget, prev>>

InitConfigUpdate ==
  /\ agentConfig = NoConfig
  /\ broken = {}
  /\ RouterIdle
  /\ env = NoEnv
  /\ buckets = [k \in BucketKeys |-> Capacity]
  /\ threads = {"t0"}
  /\ nextThread = 1
  /\ activityLog = <<>>
  /\ budget = MaxRequests
  /\ prev = NoPrev
  /\ reqs = [r \in SingleSlot |-> IdleReq]
  /\ ChannelIdle

NextConfigUpdate ==
  \/ UpdateConfig
  \/ \E r \in Slots :
       \/ SendLimitSession(r)
       \/ SendLimitGlobal(r)
       \/ SendReadConfig(r)
       \/ SendResolveThread(r)
       \/ SendGenerateReturn(r)
       \/ SendLog(r)
       \/ SendInternalReadConfig(r)
       \/ SendInternalCreateThread(r)
       \/ SendInternalGenerateReturn(r)
       \/ ApiSendResolveThread(r)
       \/ ApiSendGenerateReturn(r)
       \/ ApiSendLog(r)
       \/ Complete(r)

SpecConfigUpdate == InitConfigUpdate /\ [][NextConfigUpdate]_vars

\* ------------------------------------------------------ channelConfig.ts
MaxMutations == 4  \* channelConfig mutations run in one run

\* an optional argument or field: absent, or one value
None == <<>>
Some(v) == <<v>>
\* a ?? b
Coalesce(a, b) == IF a = None THEN b ELSE a[1]
CoalesceOpt(a, b) == IF a = None THEN b ELSE a

defaultEnabled == FALSE
defaultRateLimitPerMinute == 20

Row(id, channelType, displayName, enabled, rate, webhookUrl, metadata, updatedAt) ==
  [_id |-> id, channelType |-> channelType, displayName |-> displayName,
   enabled |-> enabled, rateLimitPerMinute |-> rate, webhookUrl |-> webhookUrl,
   metadata |-> metadata, updatedAt |-> updatedAt]

\* null, as the result of .first() or ctx.db.get
NoRow == Row(0, "", "", FALSE, 0, None, None, 0)

\* .withIndex('by_type', q => q.eq('channelType', t)).first()
byType(rows, t) == {x \in rows : x.channelType = t}
first(S) ==
  IF S = {} THEN NoRow ELSE CHOOSE x \in S : \A y \in S : x._id <= y._id

\* ctx.db.get(id)
get(rows, id) ==
  IF \E x \in rows : x._id = id THEN CHOOSE x \in rows : x._id = id ELSE NoRow

\* the channels seed knows
SeedChannels ==
  << [channelType |-> "telegram", displayName |-> "Telegram"],
     [channelType |-> "whatsapp", displayName |-> "WhatsApp"],
     [channelType |-> "slack", displayName |-> "Slack"],
     [channelType |-> "discord", displayName |-> "Discord"],
     [channelType |-> "email", displayName |-> "Email"] >>

\* argument records the config UI passes to upsert
UpsertArgs ==
  { [channelType |-> "telegram", displayName |-> "Telegram", enabled |-> None,
     rateLimitPerMinute |-> None, webhookUrl |-> None, metadata |-> None],
    [channelType |-> "telegram", displayName |-> "TG", enabled |-> Some(TRUE),
     rateLimitPerMinute |-> Some(5), webhookUrl |-> Some("u"), metadata |-> Some("m")],
    [channelType |-> "sms", displayName |-> "SMS", enabled |-> Some(FALSE),
     rateLimitPerMinute |-> None, webhookUrl |-> Some("u"), metadata |-> None] }

\* upsert: the table after the handler ran, given the id an insert gets
upsertRowsAlwaysInsert(rows, a, id, now) ==
  rows \cup {Row(id, a.channelType, a.displayName,
                 Coalesce(a.enabled, defaultEnabled),
                 Coalesce(a.rateLimitPerMinute, defaultRateLimitPerMinute),
                 a.webhookUrl, a.metadata, now)}
upsertRows(rows, a, id, now) ==
  LET existing == first(byType(rows, a.channelType)) IN
  IF existing # NoRow
  THEN (rows \ {existing}) \cup
       {[existing EXCEPT
           !.displayName = a.displayName,
           !.enabled = Coalesce(a.enabled, existing.enabled),
           !.rateLimitPerMinute = Coalesce(a.rateLimitPerMinute,
                                           existing.rateLimitPerMinute),
           !.webhookUrl = CoalesceOpt(a.webhookUrl, existing.webhookUrl),
           !.metadata = CoalesceOpt(a.metadata, existing.metadata),
           !.updatedAt = now]}
  ELSE rows \cup {Row(id, a.channelType, a.displayName,
                      Coalesce(a.enabled, defaultEnabled),
                      Coalesce(a.rateLimitPerMinute, defaultRateLimitPerMinute),
                      a.webhookUrl, a.metadata, now)}

\* seed: the loop over the channels, from the i-th on
RECURSIVE seedFrom(_, _, _, _)
seedFrom(rows, i, id, now) ==
  IF i > Len(SeedChannels) THEN rows
  ELSE LET channel == SeedChannels[i]
           existing == first(byType(rows, channel.channelType))
       IN IF existing = NoRow
          THEN seedFrom(rows \cup {Row(id, channel.channelType, channel.displayName,
                                       FALSE, 20, None, None, now)},
                        i + 1, id + 1, now)
          ELSE seedFrom(rows, i + 1, id, now)

\* a mutation committed: ids handed out, time moved on
Tick(inserted) ==
  dbClock' = [nextId |-> dbClock.nextId + inserted, now |-> dbClock.now + 1]

Inserted == Cardinality(channelConfig') - Cardinality(channelConfig)

UpsertWith(a) ==
  /\ dbClock.now <= MaxMutations
  /\ channelConfig' = upsertRows(channelConfig, a, dbClock.nextId, dbClock.now)
  /\ Tick(Inserted)
  /\ UNCHANGED <<agentConfig, broken, routerVars, chatVars, channelSecrets, tg>>

upsert == \E a \in UpsertArgs : UpsertWith(a)

\* toggle: throws when the id names no row, and then nothing is written
ToggleId(id) ==
  /\ dbClock.now <= MaxMutations
  /\ LET channel == get(channelConfig, id) IN
     IF channel = NoRow THEN UNCHANGED channelConfig
     ELSE channelConfig' = (channelConfig \ {channel}) \cup
            {[channel EXCEPT !.enabled = ~channel.enabled,
                             !.updatedAt = dbClock.now]}
  /\ Tick(0)
  /\ UNCHANGED <<agentConfig, broken, routerVars, chatVars, channelSecrets, tg>>

toggle == \E id \in 1..(dbClock.nextId - 1) : ToggleId(id)

\* remove: the secrets of the channel, then the row; ctx.db.delete throws
\* when the row is gone, and then the whole mutation is rolled back
RemoveId(id) ==
  /\ dbClock.now <= MaxMutations
  /\ IF get(channelConfig, id) = NoRow
     THEN UNCHANGED <<channelConfig, channelSecrets>>
     ELSE /\ channelSecrets' = {x \in channelSecrets : x.channelId # id}
          /\ channelConfig' = {x \in channelConfig : x._id # id}
  /\ Tick(0)
  /\ UNCHANGED <<agentConfig, broken, routerVars, chatVars, tg>>

remove == \E id \in 1..(dbClock.nextId - 1) : RemoveId(id)

seed ==
  /\ dbClock.now <= MaxMutations
  /\ channelConfig' = seedFrom(channelConfig, 1, dbClock.nextId, dbClock.now)
  /\ Tick(Inserted)
  /\ UNCHANGED <<agentConfig, broken, routerVars, chatVars, channelSecrets, tg>>

\* a table a deployment starts from: empty, or the Telegram row of an
\* earlier seed with a bot token stored for it
SeededTelegram == Row(1, "telegram", "Telegram", FALSE, 20, None, None, 0)

InitChannelConfig ==
  /\ agentConfig = NoConfig
  /\ broken = {}
  /\ RouterIdle
  /\ ChatIdle
  /\ tg = TgIdle(0, <<>>)
  /\ \/ /\ channelConfig = {}
        /\ channelSecrets = {}
        /\ dbClock = [nextId |-> 1, now |-> 1]
     \/ /\ channelConfig = {SeededTelegram}
        /\ channelSecrets = {[_id |-> 2, channelId |-> 1]}
        /\ dbClock = [nextId |-> 3, now |-> 1]

NextChannelConfig == upsert \/ toggle \/ remove \/ seed

SpecChannelConfig == InitChannelConfig /\ [][NextChannelConfig]_vars

\* ------------------------------------------- telegram.ts processMessage
MaxInbound == 2    \* Telegram messages arriving in one run

ChatIds == {7, 8}
firstName == "Ann"
TgTexts == {"/start", "/help", "hi"}
TextLength(text) == IF text = "hi" THEN 2 ELSE 5

\* the texts processMessage passes to sendMessage (without their emoji)
DisabledText == "This bot is currently disabled. Please contact the administrator."
StartText == "Hello " \o firstName \o "! I'm your AI assistant.\n\nYou can ask me anything!\n\nUse /help to see available commands."
HelpText == "*Available Commands*\n\n/start - Start the bot\n/help - Show this help message\n\nOr just send me any message and I'll respond!"
ErrorReply(error) == "Sorry, I encountered an error: " \o error
Apology == "I apologize, but I couldn't generate a response."
WentWrongText == "Sorry, something went wrong. Please try again."

\* `telegram_${args.chatId}`
telegramSession(chatId) == "telegram_" \o ToString(chatId)

\* channelConfig?.enabled
telegramEnabledIfPresent(row) == row # NoRow
telegramEnabled(row) == row # NoRow /\ row.enabled

\* ctx.runAction(internal.telegram.sendMessage, {text, ...}): the handler
\* catches its own failures and answers true or false
sendMessage(t, text) == [t EXCEPT !.sent = Append(@, text)]

\* the catch arm of processMessage
TgCatch(t) == [sendMessage(t, WentWrongText) EXCEPT !.pc = "done"]

\* processMessage is invoked: sendTypingIndicator
TgTyping ==
  /\ tg.pc = "idle"
  /\ tg.left > 0
  /\ \E chatId \in ChatIds, text \in TgTexts, fault \in BOOLEAN :
       LET t0 == [TgIdle(tg.left - 1, tg.calls) EXCEPT !.chatId = chatId,
                                                     !.text = text]
       IN tg' = IF fault THEN TgCatch(t0) ELSE [t0 EXCEPT !.pc = "gate"]
  /\ UNCHANGED <<agentConfig, broken, routerVars, chatVars, channelConfig,
                 channelSecrets, dbClock>>

\* getByTypeInternal({channelType: 'telegram'}), the enabled test, and the
\* /start and /help replies
TgGate ==
  /\ tg.pc = "gate"
  /\ \E fault \in BOOLEAN :
       LET row == first(byType(channelConfig, "telegram"))
           t1 == [tg EXCEPT !.gate = IF row = NoRow THEN "absent"
                                     ELSE IF row.enabled THEN "enabled"
                                     ELSE "disabled"]
       IN tg' = IF fault THEN TgCatch(tg)
                ELSE IF ~telegramEnabled(row)
                THEN [sendMessage(t1, DisabledText) EXCEPT !.pc = "done"]
                ELSE IF t1.text = "/start"
                THEN [sendMessage(t1, StartText) EXCEPT !.pc = "done"]
                ELSE IF t1.text = "/help"
                THEN [sendMessage(t1, HelpText) EXCEPT !.pc = "done"]
                ELSE [t1 EXCEPT !.pc = "call"]
  /\ UNCHANGED <<agentConfig, broken, routerVars, chatVars, channelConfig,
                 channelSecrets, dbClock>>

\* ctx.runAction(internal.chat.sendInternal, {message, sessionId})
TgCallSendInternal(r) ==
  /\ tg.pc = "call"
  /\ reqs[r].pc = "idle"
  /\ \E fault \in BOOLEAN :
       SendInternalStart(r, TextLength(tg.text), telegramSession(tg.chatId), fault)
  /\ tg' = [tg EXCEPT !.pc = "await", !.nInternal = @ + 1]
  /\ UNCHANGED <<agentConfig, broken, routerVars, env, buckets, threads,
                 nextThread, activityLog, budget, prev, channelConfig,
                 channelSecrets, dbClock>>

\* sendInternal has returned: the error reply or the AI response is sent
TgReply(r) ==
  /\ tg.pc = "await"
  /\ reqs[r].pc = "done"
  /\ LET result == reqs[r].result
         t1 == [tg EXCEPT !.calls =
                  IF reqs[r].nGen > 0
                  THEN Append(@, [sessionId |-> reqs[r].sessionId,
                                  threadId |-> reqs[r].threadId])
                  ELSE @]
     IN tg' = IF TruthyStr(result.error)
              THEN [sendMessage(t1, ErrorReply(result.error)) EXCEPT !.pc = "done"]
              ELSE [sendMessage(t1, IF TruthyStr(result.response)
                                    THEN result.response ELSE Apology)
                      EXCEPT !.pc = "log"]
  /\ Put(r, IdleReq)
  /\ prev' = Returned(reqs[r])
  /\ UNCHANGED <<agentConfig, broken, routerVars, env, buckets, threads,
                 nextThread, activityLog, budget, channelConfig,
                 channelSecrets, dbClock>>

\* ctx.runMutation(internal.activityLog.log, {actionType: 'telegram_message'})
TgLog ==
  /\ tg.pc = "log"
  /\ \E fault \in BOOLEAN :
       LET t1 == [tg EXCEPT !.nLog = @ + 1] IN
       IF fault
       THEN /\ tg' = TgCatch(t1)
            /\ UNCHANGED activityLog
       ELSE /\ tg' = [t1 EXCEPT !.pc = "done"]
            /\ activityLog' = logActivity(activityLog, "telegram_message")
  /\ UNCHANGED <<agentConfig, broken, routerVars, env, buckets, threads,
                 nextThread, budget, prev, reqs, channelConfig,
                 channelSecrets, dbClock>>

\* processMessage has returned
TgComplete ==
  /\ tg.pc = "done"
  /\ tg' = TgIdle(tg.left, tg.calls)
  /\ UNCHANGED <<agentConfig, broken, routerVars, chatVars, channelConfig,
                 channelSecrets, dbClock>>

EnabledTelegram == Row(1, "telegram", "Telegram", TRUE, 20, None, None, 0)

InitTelegram ==
  /\ agentConfig = NoConfig
  /\ broken = {}
  /\ RouterIdle
  /\ ChatIdle
  /\ channelConfig \in {{}, {SeededTelegram}, {EnabledTelegram}}
  /\ channelSecrets = {}
  /\ dbClock = [nextId |-> 2, now |-> 1]
  /\ tg = TgIdle(MaxInbound, <<>>)

NextTelegram ==
  \/ TgTyping
  \/ TgGate
  \/ TgLog
  \/ TgComplete
  \/ \E r \in Slots :
       \/ TgCallSendInternal(r)
       \/ SendInternalCreateThread(r)
       \/ SendInternalGenerateReturn(r)
       \/ TgReply(r)

SpecTelegram == InitTelegram /\ [][NextTelegram]_vars

\* --------------------------------------------- the resolver, as a caller
\* AgentConfig rows the configuration UI can have stored
FallbackProviders == {UndefinedStr, "", "openai", "custom"}
FallbackModels == {Undefined, <<>>, <<"a">>, <<"a", ":", ":", "a">>}
ResolveConfigs ==
  {NoConfig} \cup
  {Config(p, m, fp, fm, UndefinedStr, UndefinedStr) :
     p \in EnumProviders, m \in ModelIds,
     fp \in FallbackProviders, fm \in FallbackModels}

InitResolve ==
  /\ agentConfig \in ResolveConfigs
  /\ broken \in BrokenSets
  /\ RouterIdle
  /\ ChatIdle
  /\ ChannelIdle

\* a caller runs resolveModel(ctx) to completion
Resolve ==
  /\ pcR = "idle"
  /\ resolved' = resolveModel(agentConfig, broken)
  /\ pcR' = "resolved"
  /\ UNCHANGED <<agentConfig, broken, constructed, chatVars, channelVars>>

NextResolve == Resolve

SpecResolve == InitResolve /\ [][NextResolve]_vars

\* --------------------------------------------- the registries, as callers
InitConstruct ==
  /\ agentConfig = NoConfig
  /\ broken \in BrokenSets
  /\ RouterIdle
  /\ ChatIdle
  /\ ChannelIdle

\* createModel(provider, modelId) of agent/clawsync.ts
ConstructAgent ==
  /\ pcR = "idle"
  /\ \E p \in Providers, m \in ModelIds :
       constructed' = [impl |-> "agent", provider |-> p, modelId |-> m,
                       handle |-> createModelAgent(p, m, broken)]
  /\ pcR' = "constructed"
  /\ UNCHANGED <<agentConfig, broken, resolved, chatVars, channelVars>>

\* createModel(provider, modelId) of the model router
ConstructRouter ==
  /\ pcR = "idle"
  /\ \E p \in Providers, m \in ModelIds :
       constructed' = [impl |-> "router", provider |-> p, modelId |-> m,
                       handle |-> createModelRouter(p, m, broken)]
  /\ pcR' = "constructed"
  /\ UNCHANGED <<agentConfig, broken, resolved, chatVars, channelVars>>

NextConstruct == ConstructAgent \/ ConstructRouter

SpecConstruct == InitConstruct /\ [][NextConstruct]_vars

\* ------------------------------------------------- properties of chat.ts
ChatKinds == {"send", "sendInternal"}
AllKinds == {"send", "sendInternal", "apiSend"}

IsResponded(q) == q.pc = "done" /\ q.result.type = "response"
ToolOutputs == queryAnalytics(env) \cup {ExecuteError}

\* C1: in send and sendInternal, a returned response equals the model's text
\* when that text is non-empty, whatever the tool captured; when the text is
\* empty and the tool ran during the call, it equals the output the tool
\* captured (a report or an error string).
C1_ResponsePrecedence ==
  \A r \in Slots :
    LET q == reqs[r] IN
    /\ (q.kind \in ChatKinds /\ IsResponded(q)) =>
         /\ q.text # "" => q.result.response = q.text
         /\ (q.text = "" /\ q.nTool > 0) =>
              /\ q.result.response = q.lastToolResult
              /\ q.lastToolResult \in ToolOutputs
    \* send between generateText returning and the activity-log write:
    \* the response it is about to return
    /\ q.pc = "sendLog" =>
         /\ q.text # "" => q.responseText = q.text
         /\ (q.text = "" /\ q.nTool > 0) => q.responseText = q.lastToolResult

\* send answered with the tool's output because the model's text was empty
C1_Witness ==
  \E r \in Slots :
    /\ reqs[r].kind = "send" /\ IsResponded(reqs[r])
    /\ reqs[r].text = "" /\ reqs[r].nTool > 0
    /\ reqs[r].result.response = AnalyticsReport

\* C2: in send, sendInternal and apiSend, a response returned after empty
\* model text and no tool output is the fixed sentinel string, and no
\* returned response is empty or missing.
C2_SentinelEverywhere ==
  \A r \in Slots :
    LET q == reqs[r] IN
    (q.kind \in AllKinds /\ IsResponded(q)) =>
      /\ (q.text = "" /\ q.lastToolResult = Null) => q.result.response = Sentinel
      /\ q.result.response # ""
      /\ q.result.response # UndefinedStr

\* send was refused admission: a limiter said no, or the message is too long
RefusedBySession(q) == Len(q.limits) >= 1 /\ ~q.limits[1].ok
RefusedByGlobal(q) == Len(q.limits) >= 2 /\ ~q.limits[2].ok
RefusedForLength(q) ==
  Len(q.limits) >= 2 /\ q.limits[1].ok /\ q.limits[2].ok /\ q.len > maxLength
AdmissionFailed(q) ==
  q.kind = "send" /\ (RefusedBySession(q) \/ RefusedByGlobal(q) \/ RefusedForLength(q))

\* C3: a send request that fails admission returns an error result without
\* having read the agent config, constructed a model, created or continued
\* a thread, invoked the model or written an activity-log record.
C3_AdmissionShortCircuit ==
  \A r \in Slots :
    LET q == reqs[r] IN
    AdmissionFailed(q) =>
      /\ q.pc = "done"
      /\ q.result.type = "error"
      /\ q.result.error \in {RateLimitError, BusyError, TooLongError}
      /\ q.nConfig = 0 /\ q.nModel = 0
      /\ q.nThread = 0 /\ q.created = {}
      /\ q.nGen = 0 /\ q.nTool = 0
      /\ q.nLog = 0

\* an over-length message was refused after both limiters admitted it
C3_Witness ==
  \E r \in Slots :
    /\ RefusedForLength(reqs[r]) /\ reqs[r].kind = "send"
    /\ reqs[r].result.error = TooLongError

\* C4: in every entry point, the model is invoked only in a request that
\* consulted the per-session limiter keyed by its sessionId and the global
\* limiter, and that both admitted.
C4_LimitersBeforeModel ==
  \A r \in Slots :
    LET q == reqs[r] IN
    (q.kind \in AllKinds /\ q.nGen > 0) =>
      /\ \E i \in 1..Len(q.limits) :
           q.limits[i].key = q.sessionId /\ q.limits[i].ok
      /\ \E i \in 1..Len(q.limits) :
           q.limits[i].name = "globalMessages" /\ q.limits[i].ok

\* C5: send rejects a message for its length only after the per-session and
\* then the global limiter were consulted and admitted it, each call taking
\* one token from its bucket; 4000 characters are accepted, 4001 are not.
C5_State ==
  \A r \in Slots :
    LET q == reqs[r] IN
    q.kind = "send" =>
      /\ q.result.error = TooLongError =>
           /\ q.limits = <<Limit("publicChat", q.sessionId, TRUE),
                           Limit("globalMessages", "global", TRUE)>>
           /\ q.len = maxLength + 1
      /\ q.len <= maxLength => q.result.error # TooLongError
      /\ (Len(q.limits) = 2 /\ q.limits[1].ok /\ q.limits[2].ok /\ q.len = maxLength + 1) =>
           q.result = ErrorResult(TooLongError, q.argThreadId)
C5_Step ==
  \A r \in Slots :
    /\ (reqs[r].pc = "idle" /\ reqs'[r].kind = "send" /\ reqs'[r].pc = "sendGlobal") =>
         buckets' = [buckets EXCEPT ![<<"publicChat", reqs'[r].sessionId>>] = @ - 1]
    /\ (reqs[r].pc = "sendGlobal" /\ reqs'[r].result.error = TooLongError) =>
         buckets' = [buckets EXCEPT ![<<"globalMessages", "global">>] = @ - 1]
C5_RateLimitsThenLength == [](C5_State) /\ [][C5_Step]_vars

\* a 4001-character message was refused for its length
C5_Witness ==
  \E r \in Slots :
    /\ reqs[r].kind = "send" /\ reqs[r].len = maxLength + 1
    /\ reqs[r].result.error = TooLongError
    /\ buckets[<<"globalMessages", "global">>] = Capacity - 1

\* C6: every send request is checked against the 'publicChat' bucket keyed
\* by its own sessionId, so two requests with one sessionId share a bucket;
\* when the limiter admitted the first and refuses the second, only the
\* second returns the rate-limit error, and what the first returned is not
\* changed by the second.
SecondRefused(q) ==
  /\ prev.kind = "send" /\ q.kind = "send"
  /\ prev.sessionId = q.sessionId
  /\ Len(prev.limits) >= 1 /\ prev.limits[1].ok
  /\ Len(q.limits) >= 1 /\ ~q.limits[1].ok
C6_State ==
  \A r \in Slots :
    LET q == reqs[r] IN
    /\ (q.kind = "send" /\ Len(q.limits) >= 1) =>
         /\ q.limits[1].name = "publicChat"
         /\ q.limits[1].key = q.sessionId
         /\ q.limits[1].ok => q.result.error # RateLimitError
    /\ SecondRefused(q) =>
         /\ q.pc = "done"
         /\ q.result = ErrorResult(RateLimitError, q.argThreadId)
         /\ prev.limits[1].key = q.limits[1].key
         /\ prev.error # RateLimitError
         /\ Len(prev.limits) = 2 \/ prev.type = "thrown"
C6_Step ==
  prev' # prev => \E r \in Slots : reqs[r].pc = "done" /\ prev' = Returned(reqs[r])
C9_ChatUsesFallback ==
  \A r \in Slots :
    LET q == reqs[r] IN
    (q.kind \in ChatKinds /\ q.nModel = 1 /\ chatModel(q.config, broken).thrown) =>
      /\ ~(q.pc = "done" /\ q.result.type = "error")
      /\ q.nGen > 0

\* ------------------------------------------------------------ properties
DefaultHandle == anthropic(DefaultModelId, {})

\* whether the router's construction of (provider, modelId) throws here
PrimaryThrows == createModelRouter(agentConfig.modelProvider, agentConfig.model, broken).thrown
FallbackSet == TruthyStr(agentConfig.fallbackProvider) /\ Truthy(agentConfig.fallbackModel)

\* C7: every ResolvedModel that resolveModel returns is the hardcoded default
\* with isFallback=false when there is no AgentConfig, the configured primary
\* with isFallback=false when its construction succeeds, and when the primary
\* construction throws, the fallback provider/model with isFallback=true if
\* both fallback fields are set, the hardcoded default with isFallback=true
\* if either is missing.
C7_ResolveFallback ==
  (pcR = "resolved" /\ ~resolved.thrown) =>
    /\ ~agentConfig.present =>
         /\ resolved.model = DefaultHandle
         /\ resolved.provider = "anthropic"
         /\ resolved.modelId = DefaultModelId
         /\ resolved.isFallback = FALSE
    /\ (agentConfig.present /\ ~PrimaryThrows) =>
         /\ resolved.provider = agentConfig.modelProvider
         /\ resolved.modelId = agentConfig.model
         /\ resolved.model =
              createModelRouter(agentConfig.modelProvider, agentConfig.model, broken)
         /\ resolved.isFallback = FALSE
    /\ (agentConfig.present /\ PrimaryThrows /\ FallbackSet) =>
         /\ resolved.provider = agentConfig.fallbackProvider
         /\ resolved.modelId = agentConfig.fallbackModel
         /\ resolved.model =
              createModelRouter(agentConfig.fallbackProvider,
                                agentConfig.fallbackModel, broken)
         /\ ~resolved.model.thrown
         /\ resolved.isFallback = TRUE
    /\ (agentConfig.present /\ PrimaryThrows /\ ~FallbackSet) =>
         /\ resolved.model = DefaultHandle
         /\ resolved.provider = "anthropic"
         /\ resolved.modelId = DefaultModelId
         /\ resolved.isFallback = TRUE

\* the primary threw, a complete fallback was configured and was returned
C7_Witness ==
  /\ pcR = "resolved" /\ ~resolved.thrown
  /\ agentConfig.present /\ PrimaryThrows /\ FallbackSet
  /\ resolved.isFallback

\* C8: resolveModel never lets a model-construction failure escape: it
\* returns a ResolvedModel for every config and every combination of primary
\* and fallback construction failing.
C8_ResolveNeverThrows ==
  pcR = "resolved" => ~resolved.thrown

\* C10: for a provider outside the recognized set, createModel returns the
\* anthropic handle for claude-sonnet-4-20250514 whatever modelId it is
\* given, and does not throw, in both implementations.
C10_UnknownProviderDefault ==
  (pcR = "constructed" /\ constructed.provider = "bogus-provider") =>
    constructed.handle = DefaultHandle

\* the text before and after the first '::' of a composite model id
HasSeparator(s) == \E i \in 1..(Len(s) - 1) : s[i] = ":" /\ s[i + 1] = ":"
FirstSeparator(s) ==
  CHOOSE i \in 1..(Len(s) - 1) :
    /\ s[i] = ":" /\ s[i + 1] = ":"
    /\ \A j \in 1..(i - 1) : ~(s[j] = ":" /\ s[j + 1] = ":")
BeforeSeparator(s) == SubSeq(s, 1, FirstSeparator(s) - 1)
AfterSeparator(s) == SubSeq(s, FirstSeparator(s) + 2, Len(s))

\* C11: createModel('custom', 'B::M') yields a handle whose base URL is B and
\* whose model id is M (unless the adapter rejects M), and
\* createModel('custom', s) fails for every s without the '::' separator, in
\* both implementations.
C11_CustomParsing ==
  (pcR = "constructed" /\ constructed.provider = "custom") =>
    LET s == constructed.modelId
        h == constructed.handle
    IN IF HasSeparator(s)
       THEN AfterSeparator(s) \notin broken =>
              /\ ~h.thrown
              /\ h.baseURL = BeforeSeparator(s)
              /\ h.modelId = AfterSeparator(s)
       ELSE h.thrown

\* ------------------------------------- properties of chat.ts, continued
Suffixes == {"", SuffixSend, SuffixInternal}

\* C12: the base of the instruction string send and sendInternal pass to the
\* model is the default persona when there is no config or when soulDocument
\* and systemPrompt are both missing or empty; otherwise it is the non-empty
\* ones among soulDocument, systemPrompt, in that order, joined by a blank
\* line, without the default persona.
C12_InstructionBase ==
  \A r \in Slots :
    LET q == reqs[r]
        c == q.config
        soul == c.soulDocument # UndefinedStr /\ c.soulDocument # ""
        sys == c.systemPrompt # UndefinedStr /\ c.systemPrompt # ""
        base == CASE ~c.present -> DefaultPersona
                  [] c.present /\ ~soul /\ ~sys -> DefaultPersona
                  [] c.present /\ soul /\ sys ->
                       c.soulDocument \o "\n\n" \o c.systemPrompt
                  [] c.present /\ soul /\ ~sys -> c.soulDocument
                  [] c.present /\ ~soul /\ sys -> c.systemPrompt
    IN (q.kind \in ChatKinds /\ q.nGen > 0) =>
         /\ \E sfx \in Suffixes : q.system = base \o sfx
         /\ (c.present /\ (soul \/ sys)) =>
              \A sfx \in Suffixes : q.system # DefaultPersona \o sfx

\* send composed both parts of a config that has a soulDocument and a
\* systemPrompt
C12_Witness ==
  \E r \in Slots :
    /\ reqs[r].kind = "send" /\ reqs[r].nGen > 0
    /\ reqs[r].config.soulDocument = "You are Max."
    /\ reqs[r].config.systemPrompt = "Be brief."
    /\ reqs[r].system = "You are Max.\n\nBe brief."

\* the suffix each entry point appends when it offers the analytics tool
SuffixOf(kind) == IF kind = "send" THEN SuffixSend ELSE SuffixInternal
OtherKind(kind) == IF kind = "send" THEN "sendInternal" ELSE "send"

\* C13: for one AgentConfig and one environment, send and sendInternal pass
\* the same system instruction string to the model: the string a request
\* passes is the one the other entry point composes from the config and the
\* environment that request read, analytics suffix included.
C13_SameInstructions ==
  \A r \in Slots :
    LET q == reqs[r] IN
    (q.kind \in ChatKinds /\ q.nGen > 0) =>
      q.system = systemInstructions(q.config, env, SuffixOf(OtherKind(q.kind)))

\* C14: the getAnalytics tool is passed to generateText only when
\* GA4_PROPERTY_ID, GA4_SERVICE_ACCOUNT_EMAIL and GA4_PRIVATE_KEY are all set;
\* when any of them is missing no tool is passed.
C14_ToolNeedsCredentialTriple ==
  \A r \in Slots :
    LET q == reqs[r] IN
    (q.kind \in AllKinds /\ q.nGen > 0) =>
      (q.tools =>
         /\ env.GA4_PROPERTY_ID
         /\ env.GA4_SERVICE_ACCOUNT_EMAIL
         /\ env.GA4_PRIVATE_KEY)

\* the caller passed a thread to continue
Supplied(q) == q.argThreadId # UndefinedStr /\ q.argThreadId # ""

\* C15: a send request resolves its thread at most once, by continuing or by
\* creating, never both; when the caller supplied a (non-empty) threadId a
\* successful result returns exactly that id and no thread was created; when
\* the caller supplied none, exactly one thread was created, its id was not
\* in use before, and a successful result returns it.
C15_State ==
  \A r \in Slots :
    LET q == reqs[r] IN
    q.kind = "send" =>
      /\ q.nThread <= 1
      /\ Cardinality(q.created) <= 1
      /\ q.nThread = 0 => q.created = {}
      /\ Supplied(q) => q.created = {}
      /\ IsResponded(q) =>
           /\ q.nThread = 1
           /\ Supplied(q) =>
                /\ q.result.threadId = q.argThreadId
                /\ q.argThreadId \in threads
           /\ q.argThreadId = UndefinedStr =>
                /\ q.created = {q.result.threadId}
                /\ q.result.threadId # UndefinedStr
                /\ q.result.threadId \in threads
C15_Step ==
  \A r \in Slots :
    (reqs'[r].kind = "send" /\ reqs'[r].created # reqs[r].created) =>
      /\ reqs[r].created = {}
      /\ \E t \in threads' :
           /\ t \notin threads
           /\ reqs'[r].created = {t}
           /\ threads' = threads \cup {t}
C16_FailedCarriesThread ==
  \A r \in Slots :
    LET q == reqs[r] IN
    (q.kind \in {"send", "apiSend"} /\ q.pc = "done"
       /\ q.result.type = "error" /\ q.created # {}) =>
      q.result.threadId \in q.created

\* C17: send, sendInternal and apiSend end by returning a result object,
\* a response or an error, whichever collaborator call threw; none ends by
\* raising an exception to its caller.
C17_NoFaultCrossesBoundary ==
  \A r \in Slots :
    LET q == reqs[r] IN
    (q.kind \in AllKinds /\ q.pc = "done") =>
      q.result.type \in {"response", "error"}

\* C18: in send and apiSend, once generateText has returned and the
\* activity-log write was attempted, the request returns the response with
\* the generated text and the threadId, also when that write failed.
C18_LoggingBestEffort ==
  \A r \in Slots :
    LET q == reqs[r] IN
    (q.kind \in {"send", "apiSend"} /\ q.pc = "done" /\ q.nLog > 0) =>
      q.result = Responded(q.responseText, q.threadId)

\* C19: when queryAnalytics throws inside getAnalytics.execute, the tool
\* returns an error string to the model and stores that same string in
\* lastToolResult; the request goes on generating, and when the model then
\* returns no text that string is the response.
C19_State ==
  \A r \in Slots :
    LET q == reqs[r] IN
    (q.kind \in ChatKinds /\ q.nTool > 0 /\ q.toolThrew) =>
      /\ q.toolReturn = ExecuteError
      /\ q.lastToolResult = q.toolReturn
      /\ (IsResponded(q) /\ q.text = "") => q.result.response = ExecuteError
      /\ (q.kind = "sendInternal" /\ q.pc = "done" /\ q.responseText # "") =>
           IsResponded(q)
C19_Step ==
  \A r \in Slots :
    (reqs'[r].nTool = reqs[r].nTool + 1 /\ reqs'[r].toolThrew) =>
      /\ reqs'[r].pc = "generating"
      /\ reqs'[r].result = NoResult
C19_ToolFailureContained == [](C19_State) /\ [][C19_Step]_vars

\* the tool's call threw, the model returned no text, and sendInternal
\* answered with the tool's error string
C19_Witness ==
  \E r \in Slots :
    /\ reqs[r].kind = "sendInternal" /\ IsResponded(reqs[r])
    /\ reqs[r].toolThrew /\ reqs[r].text = ""
    /\ reqs[r].result.response = ExecuteError

FixedErrors == {RateLimitError, BusyError, TooLongError, GenerateError}

\* C20: every error string send, sendInternal or apiSend returns is one of
\* the four fixed messages, and the one returned after a collaborator threw
\* is always 'Failed to generate response. Please try again.', with nothing
\* of the exception in it.
C20_ErrorsNotLeaked ==
  \A r \in Slots :
    LET q == reqs[r] IN
    (q.kind \in AllKinds /\ q.pc = "done" /\ q.result.type = "error") =>
      /\ q.result.error \in FixedErrors
      /\ q.result.response = UndefinedStr
      /\ (q.nConfig > 0 \/ q.nThread > 0) => q.result.error = GenerateError

\* generateText threw in send and the caller got the generic message
C20_Witness ==
  \E r \in Slots :
    /\ reqs[r].kind = "send" /\ reqs[r].pc = "done"
    /\ reqs[r].nGen > 0 /\ reqs[r].nLog = 0
    /\ reqs[r].result.error = GenerateError

\* C21: once the config UI has saved an AgentConfig, every request started
\* after that save, through send, sendInternal or apiSend, invokes the model
\* with the model built from the saved provider and model id and with the
\* system instructions composed from the saved config.
C21_ConfigGovernsRequests ==
  \A r \in Slots :
    LET q == reqs[r] IN
    (q.kind \in AllKinds /\ q.nGen > 0 /\ ~q.overtaken /\ agentConfig.present) =>
      /\ q.model = chatModel(agentConfig, broken)
      /\ \E sfx \in Suffixes : q.system = baseInstructions(agentConfig) \o sfx

\* C22: every sendInternal call that reaches the model has created exactly
\* one thread, whose id was not in use before, and generates against it; no
\* two calls made for Telegram messages, of the same chat or of different
\* ones, generate against the same thread.
C22_State ==
  /\ \A i, j \in 1..Len(tg.calls) :
       i < j => tg.calls[i].threadId # tg.calls[j].threadId
  /\ \A r \in Slots :
       LET q == reqs[r] IN
       (q.kind = "sendInternal" /\ q.nGen > 0) =>
         /\ q.nThread = 1
         /\ q.created = {q.threadId}
         /\ q.threadId \in threads
         /\ \A i \in 1..Len(tg.calls) : tg.calls[i].threadId # q.threadId
C22_Step ==
  \A r \in Slots :
    (reqs'[r].kind = "sendInternal" /\ reqs'[r].created # reqs[r].created) =>
      \E t \in threads' :
        /\ t \notin threads
        /\ reqs'[r].created = {t}
        /\ threads' = threads \cup {t}
C22_InternalAlwaysNewThread == [](C22_State) /\ [][C22_Step]_vars

\* two messages of one Telegram chat were answered from two threads
C22_Witness ==
  /\ Len(tg.calls) = 2
  /\ tg.calls[1].sessionId = tg.calls[2].sessionId
  /\ tg.calls[1].threadId = "t1"
  /\ tg.calls[2].threadId = "t2"

ActionTypeOf(kind) == IF kind = "send" THEN "chat_message" ELSE "api_chat"

\* C23: a send or apiSend request writes exactly one activity-log record when
\* it returns a response, in the step in which it does, and none when it is
\* refused at admission or fails; nothing else writes to the log.
C23_Step ==
  \A r \in Slots :
    LET returns == /\ reqs[r].pc # "done"
                   /\ reqs'[r].pc = "done"
                   /\ reqs'[r].kind \in {"send", "apiSend"}
    IN /\ (returns /\ reqs'[r].result.type = "response") =>
            activityLog' = Append(activityLog, ActionTypeOf(reqs'[r].kind))
       /\ (returns /\ reqs'[r].result.type # "response") =>
            activityLog' = activityLog
       /\ ~returns => activityLog' = activityLog
C23_OneLogPerResponse == [][C23_Step]_vars

\* send returned a response and left its one record
C23_Witness ==
  \E r \in Slots :
    /\ reqs[r].kind = "send" /\ IsResponded(reqs[r])
    /\ activityLog = <<"chat_message">>

\* C24: in every request generateText is invoked at most once and the thread
\* is created or continued at most once; when the generation fails the
\* request ends in the error result in that step, and a request that has
\* ended does nothing more.
C24_State ==
  \A r \in Slots :
    LET q == reqs[r] IN
    q.kind \in AllKinds => (q.nGen <= 1 /\ q.nThread <= 1)
C24_Step ==
  \A r \in Slots :
    /\ (reqs[r].pc = "generating"
          /\ reqs'[r].pc \notin {"generating", "sendLog", "apiLog"}
          /\ ~IsResponded(reqs'[r])) =>
         /\ reqs'[r].pc = "done"
         /\ reqs'[r].result.type = "error"
         /\ reqs'[r].nGen = reqs[r].nGen
         /\ reqs'[r].nThread = reqs[r].nThread
         /\ threads' = threads
    /\ reqs[r].pc = "done" => reqs'[r] \in {reqs[r], IdleReq}
C24_OneShotGeneration == [](C24_State) /\ [][C24_Step]_vars

\* generateText threw in sendInternal after one thread and one invocation
C24_Witness ==
  \E r \in Slots :
    /\ reqs[r].kind = "sendInternal" /\ reqs[r].pc = "done"
    /\ reqs[r].result.type = "error"
    /\ reqs[r].nGen = 1 /\ reqs[r].nThread = 1

\* the table holds a row that enables the Telegram channel
TelegramOn ==
  \E x \in channelConfig : x.channelType = "telegram" /\ x.enabled

\* C25, as stated: whenever the 'telegram' channelConfig row is absent or has
\* enabled=false, what processMessage has sent when it returns is the 'bot
\* is currently disabled' reply.
C25_DisabledReplyOnEveryPath ==
  (~TelegramOn /\ tg.pc = "done") => tg.sent = <<DisabledText>>

\* C25: when the 'telegram' channelConfig row is absent or has enabled=false,
\* processMessage never calls sendInternal, never sends the /start or /help
\* answer and writes no activity-log record; once it has read that row, the
\* one reply it sends is the 'bot is currently disabled' text.
C25_TelegramGated ==
  /\ tg.gate \in {"absent", "disabled"} =>
       /\ tg.pc = "done"
       /\ tg.sent = <<DisabledText>>
  /\ ~TelegramOn =>
       /\ tg.gate # "enabled"
       /\ tg.nInternal = 0
       /\ tg.nLog = 0
       /\ activityLog = <<>>
       /\ \A i \in 1..Len(tg.sent) : tg.sent[i] \notin {StartText, HelpText}
       /\ \A r \in Slots : reqs[r].pc = "idle"

\* /start arrived while the channel was disabled and got the disabled reply
C25_Witness ==
  /\ tg.gate = "disabled"
  /\ tg.text = "/start"
  /\ tg.sent = <<DisabledText>>

\* C26: the channelConfig table never holds two rows of one channelType;
\* upsert on a channelType that has a row patches that row and inserts
\* nothing; seed leaves every existing row as it is and inserts a row with
\* enabled=false and rateLimitPerMinute=20 for exactly the channel types of
\* its list that had none.
C26_State ==
  \A x, y \in channelConfig :
    (x.channelType = y.channelType \/ x._id = y._id) => x = y
C26_Step ==
  /\ \A a \in UpsertArgs :
       UpsertWith(a) =>
         IF \E x \in channelConfig : x.channelType = a.channelType
         THEN /\ {x._id : x \in channelConfig'} = {x._id : x \in channelConfig}
              /\ \A x \in channelConfig :
                   x.channelType # a.channelType => x \in channelConfig'
              /\ \E x \in channelConfig' :
                   x.channelType = a.channelType /\ x.displayName = a.displayName
         ELSE Cardinality(channelConfig') = Cardinality(channelConfig) + 1
  /\ seed =>
       /\ channelConfig \subseteq channelConfig'
       /\ \A x \in channelConfig' \ channelConfig :
            /\ x.enabled = FALSE
            /\ x.rateLimitPerMinute = 20
            /\ \E i \in 1..Len(SeedChannels) :
                 x.channelType = SeedChannels[i].channelType
            /\ \A y \in channelConfig : y.channelType # x.channelType
       /\ \A i \in 1..Len(SeedChannels) :
            \E x \in channelConfig' : x.channelType = SeedChannels[i].channelType
C26_UniqueChannelType == [](C26_State) /\ [][C26_Step]_vars

\* seed ran on a table whose Telegram row upsert had patched: six rows, the
\* Telegram one still as patched
C26_Witness ==
  /\ Cardinality(channelConfig) = 6
  /\ \E x \in channelConfig :
       /\ x.channelType = "telegram" /\ x.displayName = "TG"
       /\ x.enabled /\ x.rateLimitPerMinute = 5
  /\ \E x \in channelConfig :
       x.channelType = "email" /\ ~x.enabled /\ x.rateLimitPerMinute = 20

\* C27: a send request that the 'publicChat' limiter refused returns the
\* rate-limit error having made that one limiter call only, and the
\* 'globalMessages' bucket keeps its tokens.
C27_State ==
  \A r \in Slots :
    LET q == reqs[r] IN
    (q.kind = "send" /\ RefusedBySession(q)) =>
      /\ q.pc = "done"
      /\ q.result = ErrorResult(RateLimitError, q.argThreadId)
      /\ Len(q.limits) = 1
      /\ q.limits[1].name = "publicChat"
C27_Step ==
  \A r \in Slots :
    (reqs'[r].kind = "send" /\ RefusedBySession(reqs'[r])) =>
      buckets'[<<"globalMessages", "global">>] =
        buckets[<<"globalMessages", "global">>]
C27_GlobalAfterSession == [](C27_State) /\ [][C27_Step]_vars

\* the session bucket was empty, the global one is still full
C27_Witness ==
  \E r \in Slots :
    /\ reqs[r].kind = "send" /\ RefusedBySession(reqs[r])
    /\ reqs[r].result.error = RateLimitError
    /\ buckets[<<"globalMessages", "global">>] = Capacity

\* C28: for every provider of the AgentConfig enum and every model id, the
\* createModel of agent/clawsync.ts and the createModel of the model router
\* build the same handle: same adapter, same base URL, same model id.
C28_RegistriesAgree ==
  (pcR = "constructed" /\ constructed.provider \in EnumProviders) =>
    LET a == createModelAgent(constructed.provider, constructed.modelId, broken)
        b == createModelRouter(constructed.provider, constructed.modelId, broken)
    IN /\ constructed.handle \in {a, b}
       /\ a.thrown = b.thrown
       /\ a.adapter = b.adapter
       /\ a.baseURL = b.baseURL
       /\ a.modelId = b.modelId

\* C29: with two requests running concurrently, a send or sendInternal
\* request whose model returned no text answers with what its own last tool
\* invocation returned, and one that invoked no tool has an untouched holder
\* and answers with no tool output at all.
C29_RequestScopedHolder ==
  \A r \in Slots :
    LET q == reqs[r] IN
    q.kind \in ChatKinds =>
      /\ q.nTool = 0 => q.lastToolResult = Null
      /\ q.nTool > 0 => q.lastToolResult = q.toolReturn
      /\ (IsResponded(q) /\ q.text = "") =>
           /\ q.nTool > 0 => q.result.response = q.toolReturn
           /\ q.nTool = 0 => q.result.response \in {"", Sentinel}

\* both requests ran the tool with different outcomes, and the first one
\* answered with its own
C29_Witness ==
  /\ DOMAIN reqs = ConcurrentSlots
  /\ reqs[1].nTool > 0 /\ reqs[2].nTool > 0
  /\ reqs[1].toolReturn # reqs[2].toolReturn
  /\ IsResponded(reqs[1]) /\ reqs[1].text = ""
  /\ reqs[1].result.response = reqs[1].toolReturn

\* C30: when processMessage has returned, exactly one sendMessage call was
\* made for the inbound message, on every path.
C30_OneReplyPerMessage ==
  tg.pc = "done" => Len(tg.sent) = 1
====
